---- MODULE Spec2Model ----
(***************************************************************************)
(* Model of server/resources/claude-web-state.py: the hook that reads one  *)
(* JSON event from standard input, normalises it, forwards it to the       *)
(* monitor over a Unix socket and, for PermissionRequest, relays the       *)
(* monitor's decision to standard output.                                  *)
(*                                                                         *)
(* One invocation of the script is one behaviour.  The environment (the    *)
(* bytes on standard input, the output of ps, the ttyname results, what    *)
(* the monitor does with the connection) is fixed in the initial state;    *)
(* connect and send failures are chosen when the call is made.             *)
(***************************************************************************)
EXTENDS Integers, Sequences, FiniteSets, TLC

VARIABLES
    stdin,       \* bytes on standard input
    psOut,       \* outcome of `ps -p <ppid> -o tty=`
    fdTty,       \* outcomes of os.ttyname on stdin and stdout
    monitor,     \* what the monitor does after it received the event
    pc,          \* position in main() / send_event()
    data,        \* result of json.load(sys.stdin)
    tty,         \* result of get_tty()
    event_data,  \* the outbound record
    site,        \* the call site of the running send_event
    sock,        \* state of the socket object of send_event
    wire,        \* records written to the channel by sendall
    response,    \* bytes returned by sock.recv
    ret,         \* value returned by the last send_event
    stdout,      \* lines printed to standard output
    stderr,      \* name of the uncaught exception, if any
    exitCode,    \* process exit status (NoExit while running)
    calls        \* how often each external operation was performed

vars == <<stdin, psOut, fdTty, monitor, pc, data, tty, event_data, site, sock,
          wire, response, ret, stdout, stderr, exitCode, calls>>

env == <<stdin, psOut, fdTty, monitor>>

----------------------------------------------------------------------------
(* Python / JSON values.  Every value is a record [k, v]; k is the type.   *)

Str(s)  == [k |-> "str", v |-> s]
Obj(s)  == [k |-> "obj", v |-> s]     \* an opaque JSON object; "{}" is empty
Arr(s)  == [k |-> "arr", v |-> s]     \* an opaque JSON array; "[]" is empty
Num(s)  == [k |-> "num", v |-> s]     \* a number; "0" is zero
Dict(f) == [k |-> "dict", v |-> f]    \* a JSON object whose fields are read
None    == [k |-> "null", v |-> ""]   \* Python None, JSON null
Absent  == [k |-> "absent", v |-> ""] \* marks a key left out of a record

EmptyDict == [x \in {} |-> None]

\* Python truth value of a value
Truthy(x) ==
    CASE x.k = "str"  -> x.v # ""
      [] x.k = "obj"  -> x.v # "{}"
      [] x.k = "arr"  -> x.v # "[]"
      [] x.k = "num"  -> x.v # "0"
      [] x.k = "dict" -> DOMAIN x.v # {}
      [] OTHER        -> FALSE

\* dict.get(key, default)
Get(d, key, default) == IF key \in DOMAIN d THEN d[key] ELSE default

\* a byte string carrying (or failing to carry) one JSON document
Bytes(utf8, json, val) == [empty |-> FALSE, utf8 |-> utf8, json |-> json, val |-> val]
EmptyBytes == [empty |-> TRUE, utf8 |-> TRUE, json |-> FALSE, val |-> None]
Json(val)  == Bytes(TRUE, TRUE, val)
Garbage    == Bytes(TRUE, FALSE, None)    \* decodable text that is not JSON
Undecodable == Bytes(FALSE, FALSE, None)  \* bytes that are not UTF-8

\* json_loads with the decode error swallowed: text that is not JSON reads as {}
json_loads_lenient(b) ==
    IF ~b.utf8 THEN [k |-> "raise", v |-> "UnicodeDecodeError"]
    ELSE IF b.empty \/ ~b.json THEN [k |-> "ok", v |-> Dict(EmptyDict)]
    ELSE [k |-> "ok", v |-> b.val]

\* decode() followed by json.loads() / json.load(): a value or an exception
json_loads(b) ==
    IF ~b.utf8 THEN [k |-> "raise", v |-> "UnicodeDecodeError"]
    ELSE IF b.empty \/ ~b.json THEN [k |-> "raise", v |-> "JSONDecodeError"]
    ELSE [k |-> "ok", v |-> b.val]

----------------------------------------------------------------------------
(* Program constants                                                       *)

SOCKET_PATH == "/tmp/claude-web.sock"
TIMEOUT_SECONDS == 300
RECV_BUFSIZE == 4096
DefaultDenyMessage == Str("Denied by user via Claude Web Monitor")
NoExit == -1

----------------------------------------------------------------------------
(* get_tty: strings are sequences of characters here, so that strip,       *)
(* startswith and the "/dev/" prefixing are computed.                      *)

DevPrefix == <<"/", "d", "e", "v", "/">>
Whitespace == {" ", "\n", "\t"}

RECURSIVE LStrip(_)
LStrip(s) == IF s # <<>> /\ Head(s) \in Whitespace THEN LStrip(Tail(s)) ELSE s

RECURSIVE RStrip(_)
RStrip(s) ==
    IF s # <<>> /\ s[Len(s)] \in Whitespace THEN RStrip(SubSeq(s, 1, Len(s) - 1)) ELSE s

Strip(s) == RStrip(LStrip(s))

StartsWith(s, p) == Len(s) >= Len(p) /\ SubSeq(s, 1, Len(p)) = p

\* lines 32: the values of ps the code treats as "no terminal"
IsPsPlaceholder(t) == t = <<"?", "?">> \/ t = <<"-">>

\* lines 24-38: the ps branch; Absent when it falls through to the fallback
PsTty(ps) ==
    IF ps.k = "raise" THEN Absent
    ELSE LET t == Strip(ps.v) IN
         IF t # <<>> /\ ~IsPsPlaceholder(t)
         THEN Str(IF ~StartsWith(t, DevPrefix) THEN DevPrefix \o t ELSE t)
         ELSE Absent

\* lines 16-49
get_tty(ps, fd) ==
    IF PsTty(ps) # Absent THEN PsTty(ps)
    ELSE IF fd.stdin # None THEN fd.stdin
    ELSE IF fd.stdout # None THEN fd.stdout
    ELSE None

----------------------------------------------------------------------------
(* main(): classification of the inbound record (lines 80-192)             *)

KnownHooks == {"UserPromptSubmit", "PreToolUse", "PostToolUse", "PermissionRequest",
               "Notification", "Stop", "SubagentStop", "SessionStart", "SessionEnd",
               "PreCompact"}

hook_event_name(d) == Get(d, "hook_event_name", Str(""))

\* IsSuppressed with the permission_prompt test left out
IsSuppressed_never(d) == FALSE

\* lines 160-164: the Notification that is dropped without a send
IsSuppressed(d) ==
    /\ hook_event_name(d) = Str("Notification")
    /\ Get(d, "notification_type", None) = Str("permission_prompt")

\* event_type with the hook name forwarded as it came
event_type_raw(d) == hook_event_name(d)

\* the event_type assigned by the if/elif chain
event_type(d) ==
    LET event == hook_event_name(d) IN
    CASE event = Str("UserPromptSubmit")  -> Str("processing")
      [] event = Str("PreToolUse")        -> Str("running_tool")
      [] event = Str("PostToolUse")       -> Str("processing")
      [] event = Str("PermissionRequest") -> Str("waiting_for_approval")
      [] event = Str("Notification")      ->
            IF Get(d, "notification_type", None) = Str("idle_prompt")
            THEN Str("waiting_for_input") ELSE Str("notification")
      [] event = Str("Stop")              -> Str("waiting_for_input")
      [] event = Str("SubagentStop")      -> Str("waiting_for_input")
      [] event = Str("SessionStart")      -> Str("session_start")
      [] event = Str("SessionEnd")        -> Str("session_end")
      [] event = Str("PreCompact")        -> Str("compacting")
      [] OTHER                            -> Str("notification")

\* lines 107-109 and 115-117: tool_use_id is set only when it is truthy
ToolUseId(d) ==
    IF Truthy(Get(d, "tool_use_id", None))
    THEN "tool_use_id" :> d["tool_use_id"] ELSE EmptyDict

\* extra_fields with the whole inbound record copied
extra_fields_all(d) == d

\* the fields set besides event_type by the if/elif chain
extra_fields(d) ==
    LET event == hook_event_name(d)
        tool_input == Get(d, "tool_input", Obj("{}"))
        tool == ("tool_name" :> Get(d, "tool_name", None)) @@ ("tool_input" :> tool_input)
    IN
    CASE event = Str("PreToolUse")        -> tool @@ ToolUseId(d)
      [] event = Str("PostToolUse")       -> tool @@ ToolUseId(d)
      [] event = Str("PermissionRequest") -> tool
      [] event = Str("Notification")      ->
            ("title" :> Get(d, "notification_type", None))
            @@ ("message" :> Get(d, "message", None))
      [] event.v \in KnownHooks           -> EmptyDict
      [] OTHER -> "message" :> Str("Unknown event: " \o event.v)

\* lines 90-95
base_fields(d, t) ==
    ("session_id" :> Get(d, "session_id", Str("unknown")))
    @@ ("cwd" :> Get(d, "cwd", Str("")))
    @@ ("pid" :> Num("ppid"))
    @@ ("tty" :> t)

\* DenyMessage without the default text
DenyMessage_raw(reason) == reason

\* line 150
DenyMessage(reason) == IF Truthy(reason) THEN reason ELSE DefaultDenyMessage

AllowLine ==
    [hookSpecificOutput |->
        [hookEventName |-> "PermissionRequest", decision |-> [behavior |-> "allow"]]]

DenyLine(m) ==
    [hookSpecificOutput |->
        [hookEventName |-> "PermissionRequest",
         decision |-> [behavior |-> "deny", message |-> m]]]

\* ExpectsReply with the event_type test left out
ExpectsReply_always(ed) == TRUE

\* line 61
ExpectsReply(ed) == Get(ed, "event_type", None) = Str("waiting_for_approval")

----------------------------------------------------------------------------
(* The inputs of one invocation                                            *)

HookOpt == {Absent} \cup {Str(h) : h \in KnownHooks \cup {"FutureHook"}}
NotificationTypeOpt ==
    {Absent, Str("permission_prompt"), Str("idle_prompt"), Str("auth_success")}
ToolUseIdOpt == {Absent, Str(""), Str("toolu_1")}

\* the inbound record with the given fields; an Absent field is left out
Mk(h, tn, ti, tu, nt, m, t, s, c) ==
    LET all == ("hook_event_name" :> h) @@ ("tool_name" :> tn) @@ ("tool_input" :> ti)
               @@ ("tool_use_id" :> tu) @@ ("notification_type" :> nt)
               @@ ("message" :> m) @@ ("title" :> t) @@ ("session_id" :> s)
               @@ ("cwd" :> c)
    IN [key \in {x \in DOMAIN all : all[x] # Absent} |-> all[key]]

\* every combination of present and absent fields
AllRecords ==
    { Mk(h, tn, ti, tu, nt, m, t, s, c) :
        h \in HookOpt, tn \in {Absent, Str("Bash")}, ti \in {Absent, Obj("{command}")},
        tu \in ToolUseIdOpt, nt \in NotificationTypeOpt, m \in {Absent, Str("hello")},
        t \in {Absent, Str("Title")}, s \in {Absent, Str("s1")}, c \in {Absent, Str("/w")} }

\* one record per hook and notification type, with all or none of the other fields
FewRecords ==
    { Mk(h, Str("Bash"), Obj("{command}"), Str("toolu_1"), nt, Str("hello"),
         Str("Title"), Str("s1"), Str("/w")) : h \in HookOpt, nt \in NotificationTypeOpt }
    \cup { Mk(h, Absent, Absent, Absent, Absent, Absent, Absent, Absent, Absent) :
             h \in HookOpt }

\* standard input that does not hold a JSON object
BadStdin == {Garbage, Undecodable, EmptyBytes, Json(Arr("[1]")), Json(Str("Stop"))}

DecisionOpt == {Absent, None, Str("allow"), Str("deny"), Str("ask"), Str("later")}
ReasonOpt == {Absent, None, Str(""), Str("too risky")}

MkReply(d, r) ==
    LET all == ("decision" :> d) @@ ("reason" :> r)
    IN [key \in {x \in DOMAIN all : all[x] # Absent} |-> all[key]]

DecisionRecords == { Dict(MkReply(d, r)) : d \in DecisionOpt, r \in ReasonOpt }

\* JSON replies that are not an object
OtherReplies == {Arr("[1]"), Arr("[]"), Num("7"), Num("0"), Str("allow"), None}

ReplyBytes ==
    {Json(v) : v \in DecisionRecords \cup OtherReplies} \cup {Garbage, Undecodable}

Replies(b)   == [k |-> "reply", v |-> b]          \* writes b on the connection
PeerCloses   == [k |-> "close", v |-> EmptyBytes] \* closes it without writing
Silent       == [k |-> "silent", v |-> EmptyBytes] \* keeps it open and writes nothing
PeerResets   == [k |-> "reset", v |-> EmptyBytes]  \* the connection breaks

AllMonitors == {Replies(b) : b \in ReplyBytes} \cup {PeerCloses, Silent, PeerResets}
FewMonitors == {Replies(Json(Dict(MkReply(Str("allow"), Absent)))), Silent}

PsOutputs ==
    { [k |-> "raise", v |-> <<>>],
      [k |-> "out", v |-> <<>>],
      [k |-> "out", v |-> <<"\n">>],
      [k |-> "out", v |-> <<"?", "?", "\n">>],
      [k |-> "out", v |-> <<"-", "\n">>],
      [k |-> "out", v |-> <<"?", "\n">>],
      [k |-> "out", v |-> <<"p", "t", "s", "/", "1", "\n">>],
      [k |-> "out", v |-> <<"t", "t", "y", "s", "0", "0", "1", " ", " ", "\n">>],
      [k |-> "out", v |-> <<"/", "d", "e", "v", "/", "p", "t", "s", "/", "1", "\n">>] }
FewPsOutputs ==
    { [k |-> "raise", v |-> <<>>],
      [k |-> "out", v |-> <<"p", "t", "s", "/", "1", "\n">>] }

TtyOfStdin  == Str(<<"/", "d", "e", "v", "/", "p", "t", "s", "/", "2">>)
TtyOfStdout == Str(<<"/", "d", "e", "v", "/", "p", "t", "s", "/", "3">>)
FdTtys == [stdin : {None, TtyOfStdin}, stdout : {None, TtyOfStdout}]
NoFdTty == [stdin |-> None, stdout |-> None]

----------------------------------------------------------------------------
(* Initial state: the process has started, nothing has been read           *)

NoCalls == [send_event |-> 0, connect |-> 0, sendall |-> 0, recv |-> 0, get_tty |-> 0]

Start ==
    /\ pc = "main_load"
    /\ data = None
    /\ tty = None
    /\ event_data = EmptyDict
    /\ site = "none"
    /\ sock = "none"
    /\ wire = <<>>
    /\ response = EmptyBytes
    /\ ret = None
    /\ stdout = <<>>
    /\ stderr = "none"
    /\ exitCode = NoExit
    /\ calls = NoCalls

\* the decision relay: few records, every behaviour of the monitor
Init ==
    /\ stdin \in {Json(Dict(r)) : r \in FewRecords} \cup BadStdin
    /\ psOut \in FewPsOutputs
    /\ fdTty = NoFdTty
    /\ monitor \in AllMonitors
    /\ Start

\* the normaliser: every inbound record
InitRecords ==
    /\ stdin \in {Json(Dict(r)) : r \in AllRecords}
    /\ psOut \in FewPsOutputs
    /\ fdTty = NoFdTty
    /\ monitor \in FewMonitors
    /\ Start

\* the terminal resolution: every outcome of ps and of ttyname
InitTty ==
    /\ stdin \in {Json(Dict(r)) : r \in
                     {Mk(h, Absent, Absent, Absent, Absent, Absent, Absent, Absent, Absent) :
                        h \in {Str("Stop"), Str("PermissionRequest")}}} \cup {Garbage}
    /\ psOut \in PsOutputs
    /\ fdTty \in FdTtys
    /\ monitor \in FewMonitors
    /\ Start

----------------------------------------------------------------------------
(* main()                                                                  *)

Bump(op) == [calls EXCEPT ![op] = @ + 1]

\* an exception nobody catches: the interpreter prints it and exits with 1
Uncaught(name) ==
    /\ pc' = "exited"
    /\ exitCode' = 1
    /\ stderr' = name

\* lines 75-78
LoadStdin ==
    /\ pc = "main_load"
    /\ LET r == json_loads(stdin) IN
         IF r.k = "ok"
         THEN /\ data' = r.v
              /\ pc' = "main_fields"
              /\ UNCHANGED <<exitCode, stderr>>
         ELSE IF r.v = "JSONDecodeError"
         THEN /\ pc' = "exited"          \* sys.exit(1)
              /\ exitCode' = 1
              /\ UNCHANGED <<data, stderr>>
         ELSE /\ Uncaught(r.v)
              /\ UNCHANGED data
    /\ UNCHANGED <<env, tty, event_data, site, sock, wire, response, ret, stdout, calls>>

\* lines 80-83: data.get(...) on the parsed value
ReadFields ==
    /\ pc = "main_fields"
    /\ IF data.k = "dict"
       THEN pc' = "main_tty" /\ UNCHANGED <<exitCode, stderr>>
       ELSE Uncaught("AttributeError")
    /\ UNCHANGED <<env, data, tty, event_data, site, sock, wire, response, ret, stdout, calls>>

\* lines 86-87
ResolveTty ==
    /\ pc = "main_tty"
    /\ tty' = get_tty(psOut, fdTty)
    /\ calls' = Bump("get_tty")
    /\ pc' = "main_build"
    /\ UNCHANGED <<env, data, event_data, site, sock, wire, response, ret, stdout, stderr,
                   exitCode>>

\* lines 90-192: build the record; 126 and 195 call send_event, 164 exits
BuildEvent ==
    /\ pc = "main_build"
    /\ IF IsSuppressed(data.v)
       THEN /\ event_data' = base_fields(data.v, tty)
            /\ pc' = "exited"
            /\ exitCode' = 0
            /\ UNCHANGED <<site, calls>>
       ELSE /\ event_data' = base_fields(data.v, tty)
                             @@ ("event_type" :> event_type(data.v))
                             @@ extra_fields(data.v)
            /\ site' = IF hook_event_name(data.v) = Str("PermissionRequest")
                       THEN "permission" ELSE "tail"
            /\ pc' = "se_socket"
            /\ calls' = Bump("send_event")
            /\ UNCHANGED exitCode
    /\ UNCHANGED <<env, data, tty, sock, wire, response, ret, stdout, stderr>>

----------------------------------------------------------------------------
(* send_event(event_data), lines 52-71                                     *)

\* `return v`: back to the call site (line 126 or line 195)
Return(v) ==
    /\ ret' = v
    /\ pc' = IF site = "permission" THEN "main_decide" ELSE "main_end"

\* What becomes of a socket that is dropped without close(): a reference
\* counting runtime closes it when the frame goes, any other leaves it open.
Dropped(s) == IF s = "none" THEN {s} ELSE {s, "closed"}

\* line 70-71: the except clause; no close() is called on this path
Except ==
    /\ Return(None)
    /\ sock' \in Dropped(sock)

\* lines 55-56
SeSocket ==
    /\ pc = "se_socket"
    /\ \/ /\ sock' = "open"
          /\ pc' = "se_connect"
          /\ UNCHANGED ret
       \/ /\ Return(None)              \* socket() raises OSError
          /\ sock' = "none"
    /\ UNCHANGED <<env, data, tty, event_data, site, wire, response, stdout, stderr,
                   exitCode, calls>>

\* line 57
SeConnect ==
    /\ pc = "se_connect"
    /\ calls' = Bump("connect")
    /\ \/ /\ sock' = "connected"
          /\ pc' = "se_sendall"
          /\ UNCHANGED ret
       \/ Except                       \* no listener, no socket file, timeout
    /\ UNCHANGED <<env, data, tty, event_data, site, wire, response, stdout, stderr,
                   exitCode>>

\* lines 58-61
SeSendAll ==
    /\ pc = "se_sendall"
    /\ calls' = Bump("sendall")
    /\ \/ /\ wire' = Append(wire, event_data)
          /\ pc' = IF ExpectsReply(event_data) THEN "se_recv" ELSE "se_close"
          /\ UNCHANGED <<ret, sock>>
       \/ /\ Except                    \* broken pipe, timeout
          /\ UNCHANGED wire
    /\ UNCHANGED <<env, data, tty, event_data, site, response, stdout, stderr, exitCode>>

\* line 62
SeRecv ==
    /\ pc = "se_recv"
    /\ calls' = Bump("recv")
    /\ CASE monitor.k = "reply" ->
              /\ response' = monitor.v
              /\ pc' = "se_parse"
              /\ UNCHANGED <<ret, sock>>
         [] monitor.k = "close" ->
              /\ response' = EmptyBytes
              /\ pc' = "se_parse"
              /\ UNCHANGED <<ret, sock>>
         [] OTHER ->                   \* socket.timeout or a connection error
              /\ Except
              /\ UNCHANGED response
    /\ UNCHANGED <<env, data, tty, event_data, site, wire, stdout, stderr, exitCode>>

\* lines 63-65 and 69
SeCloseParse ==
    /\ pc = "se_parse"
    /\ sock' = "closed"
    /\ IF ~response.empty
       THEN LET r == json_loads(response) IN
            IF r.k = "ok" THEN Return(r.v) /\ UNCHANGED <<stderr, exitCode>>
            ELSE IF r.v = "JSONDecodeError"
            THEN Return(None) /\ UNCHANGED <<stderr, exitCode>>
            ELSE Uncaught(r.v) /\ UNCHANGED ret
       ELSE Return(None) /\ UNCHANGED <<stderr, exitCode>>
    /\ UNCHANGED <<env, data, tty, event_data, site, wire, response, stdout, calls>>

\* lines 67 and 69
SeClose ==
    /\ pc = "se_close"
    /\ sock' = "closed"
    /\ Return(None)
    /\ UNCHANGED <<env, data, tty, event_data, site, wire, response, stdout, stderr,
                   exitCode, calls>>

----------------------------------------------------------------------------
(* main(), after send_event has returned                                   *)

\* lines 128-158
Decide ==
    /\ pc = "main_decide"
    /\ IF Truthy(ret) /\ ret.k # "dict"
       THEN Uncaught("AttributeError") /\ UNCHANGED stdout   \* response.get
       ELSE /\ pc' = "exited"
            /\ exitCode' = 0
            /\ UNCHANGED stderr
            /\ IF Truthy(ret)
               THEN LET decision == Get(ret.v, "decision", Str("ask"))
                        reason == Get(ret.v, "reason", Str(""))
                    IN IF decision = Str("allow")
                       THEN stdout' = Append(stdout, AllowLine)
                       ELSE IF decision = Str("deny")
                       THEN stdout' = Append(stdout, DenyLine(DenyMessage(reason)))
                       ELSE UNCHANGED stdout
               ELSE UNCHANGED stdout
    /\ UNCHANGED <<env, data, tty, event_data, site, sock, wire, response, ret, calls>>

\* line 195 has returned and main() ends
MainEnd ==
    /\ pc = "main_end"
    /\ pc' = "exited"
    /\ exitCode' = 0
    /\ UNCHANGED <<env, data, tty, event_data, site, sock, wire, response, ret, stdout,
                   stderr, calls>>

Next ==
    \/ LoadStdin
    \/ ReadFields
    \/ ResolveTty
    \/ BuildEvent
    \/ SeSocket
    \/ SeConnect
    \/ SeSendAll
    \/ SeRecv
    \/ SeCloseParse
    \/ SeClose
    \/ Decide
    \/ MainEnd

Spec == Init /\ [][Next]_vars
SpecRecords == InitRecords /\ [][Next]_vars
SpecTty == InitTty /\ [][Next]_vars

TypeOK ==
    /\ pc \in {"main_load", "main_fields", "main_tty", "main_build", "se_socket",
               "se_connect", "se_sendall", "se_recv", "se_parse", "se_close",
               "main_decide", "main_end", "exited"}
    /\ sock \in {"none", "open", "connected", "closed"}
    /\ site \in {"none", "permission", "tail"}
    /\ exitCode \in {NoExit, 0, 1}
    /\ Len(stdout) \in 0..1

----------------------------------------------------------------------------
(* Vocabulary of the properties                                            *)

Exited == pc = "exited"
Returned == pc \in {"main_decide", "main_end", "exited"}

\* standard input held a JSON object: the inbound record
HasRecord == stdin.utf8 /\ stdin.json /\ ~stdin.empty /\ stdin.val.k = "dict"
Inbound == stdin.val.v
Hook == Get(Inbound, "hook_event_name", Str(""))
IsPermissionRequest == HasRecord /\ Hook = Str("PermissionRequest")
IsPermissionPrompt ==
    /\ HasRecord
    /\ Hook = Str("Notification")
    /\ "notification_type" \in DOMAIN Inbound
    /\ Inbound["notification_type"] = Str("permission_prompt")

\* the monitor's reply, as a decision record, when send_event returned one
GotDecisionRecord == pc \in {"main_decide", "exited"} /\ ret.k = "dict" /\ DOMAIN ret.v # {}
DecisionIs(s) ==
    GotDecisionRecord /\ "decision" \in DOMAIN ret.v /\ ret.v["decision"] = Str(s)

BaseKeys == {"session_id", "cwd", "pid", "tty", "event_type"}
KindKeys == DOMAIN event_data \ BaseKeys
Built == HasRecord /\ "event_type" \in DOMAIN event_data

----------------------------------------------------------------------------
\* C1: For a PermissionRequest whose reply is a decision record, decision
\* "allow" makes main() print exactly the allow directive and exit 0, and
\* decision "deny" makes it print exactly the deny directive and exit 0, the
\* message being the reply's reason when one is given (a non-empty string)
\* and the default text when the reply has no reason (none, null or empty).
C1_DecisionRelayed ==
    (Exited /\ IsPermissionRequest) =>
        /\ DecisionIs("allow") => stdout = <<AllowLine>> /\ exitCode = 0
        /\ DecisionIs("deny") =>
             /\ exitCode = 0
             /\ stdout = <<DenyLine(IF "reason" \in DOMAIN ret.v
                                       /\ ret.v["reason"] \notin {None, Str("")}
                                    THEN ret.v["reason"]
                                    ELSE Str("Denied by user via Claude Web Monitor"))>>

C1_Witness ==
    /\ Exited /\ IsPermissionRequest /\ DecisionIs("deny")
    /\ "reason" \notin DOMAIN ret.v
    /\ Len(stdout) = 1

\* C2: For a PermissionRequest a directive is on standard output only if
\* the reply was received with decision exactly "allow" or "deny"; in every
\* other outcome of the exchange standard output is empty and the exit
\* status is 0.
C2_SilentUnlessDecided ==
    IsPermissionRequest =>
        /\ stdout # <<>> => DecisionIs("allow") \/ DecisionIs("deny")
        /\ (Exited /\ ~DecisionIs("allow") /\ ~DecisionIs("deny")) =>
               stdout = <<>> /\ exitCode = 0

\* C3: Once standard input has parsed to the inbound record, no behaviour
\* of the channel and no reply raises an error: the process exits with 0
\* and nothing is reported on standard error.
C3_ExitZeroOnceParsed ==
    (Exited /\ HasRecord) => exitCode = 0 /\ stderr = "none"

----------------------------------------------------------------------------
\* The dispatch table of the specification, hook name to event_type
TableEventType ==
    [h \in KnownHooks |->
        CASE h = "UserPromptSubmit"  -> "processing"
          [] h = "PreToolUse"        -> "running_tool"
          [] h = "PostToolUse"       -> "processing"
          [] h = "PermissionRequest" -> "waiting_for_approval"
          [] h = "Notification"      -> "notification"
          [] h = "Stop"              -> "waiting_for_input"
          [] h = "SubagentStop"      -> "waiting_for_input"
          [] h = "SessionStart"      -> "session_start"
          [] h = "SessionEnd"        -> "session_end"
          [] h = "PreCompact"        -> "compacting"]

\* the "extra fields copied" column
TableFields ==
    [h \in KnownHooks |->
        CASE h \in {"PreToolUse", "PostToolUse"} -> {"tool_name", "tool_input", "tool_use_id"}
          [] h = "PermissionRequest" -> {"tool_name", "tool_input"}
          [] h = "Notification" -> {"title", "message"}
          [] OTHER -> {}]

CanonicalKinds ==
    {"processing", "running_tool", "waiting_for_approval", "waiting_for_input",
     "notification", "session_start", "session_end", "compacting"}

HasToolUseId ==
    "tool_use_id" \in DOMAIN Inbound /\ Inbound["tool_use_id"] \notin {None, Str("")}

\* C4: The outbound record has the event_type and the kind-specific fields
\* of the dispatch table: the table's kind for each known hook (idle_prompt
\* turning a Notification into waiting_for_input), the table's fields
\* (tool_use_id exactly when the inbound record has one), and for any other
\* or absent hook name N the kind notification with the message
\* "Unknown event: N"; event_type is always one of the canonical kinds.
C4_DispatchTable ==
    Built =>
        /\ event_data["event_type"].k = "str"
        /\ event_data["event_type"].v \in CanonicalKinds
        /\ IF Hook.v \in KnownHooks
           THEN /\ event_data["event_type"].v =
                      IF Hook.v = "Notification" /\ "notification_type" \in DOMAIN Inbound
                         /\ Inbound["notification_type"] = Str("idle_prompt")
                      THEN "waiting_for_input" ELSE TableEventType[Hook.v]
                /\ KindKeys = IF HasToolUseId THEN TableFields[Hook.v]
                              ELSE TableFields[Hook.v] \ {"tool_use_id"}
           ELSE /\ event_data["event_type"].v = "notification"
                /\ KindKeys = {"message"}
                /\ event_data["message"] = Str("Unknown event: " \o Hook.v)

C4_Witness ==
    /\ Built /\ Len(wire) = 1 /\ wire[1] = event_data
    /\ Hook = Str("PostToolUse") /\ HasToolUseId
    /\ event_data["event_type"] = Str("processing")

----------------------------------------------------------------------------
\* C5 as stated: in every invocation whose standard input parses to a record
\* exactly one write of the event record is performed on the channel, none
\* for the suppressed Notification; at most one read, only for
\* waiting_for_approval; at most one line on standard output, only on an
\* allow or deny decision.
C5_ExactlyOneWrite ==
    (Exited /\ HasRecord) =>
        /\ Len(wire) = IF IsPermissionPrompt THEN 0 ELSE 1
        /\ calls.recv <= 1
        /\ calls.recv = 1 => event_data["event_type"] = Str("waiting_for_approval")
        /\ Len(stdout) <= 1
        /\ stdout # <<>> => DecisionIs("allow") \/ DecisionIs("deny")

\* C5 amended: send_event is called exactly once for a record (never for the
\* suppressed Notification, which exits 0, and never twice for a
\* PermissionRequest); the call makes at most one connection attempt and at
\* most one write of the event record, the write being there whenever the
\* call got past sendall; at most one read, only after the write and only
\* for waiting_for_approval; at most one line on standard output, only on
\* an allow or deny decision of a PermissionRequest.
C5_AtMostOneWrite ==
    /\ Len(wire) <= calls.sendall
    /\ calls.sendall <= calls.connect
    /\ calls.connect <= calls.send_event
    /\ calls.send_event <= 1
    /\ \A i \in 1..Len(wire) : wire[i] = event_data
    /\ pc \in {"se_recv", "se_parse", "se_close"} => Len(wire) = 1
    /\ calls.recv <= Len(wire)
    /\ calls.recv = 1 => event_data["event_type"] = Str("waiting_for_approval")
    /\ Len(stdout) <= 1
    /\ stdout # <<>> => IsPermissionRequest /\ (DecisionIs("allow") \/ DecisionIs("deny"))
    /\ IsPermissionPrompt => calls.send_event = 0 /\ (Exited => exitCode = 0)
    /\ (Exited /\ HasRecord /\ ~IsPermissionPrompt) => calls.send_event = 1

C5_Witness ==
    /\ Exited /\ IsPermissionRequest
    /\ calls.send_event = 1 /\ Len(wire) = 1 /\ calls.recv = 1 /\ Len(stdout) = 1

\* C6: whenever send_event has returned and its socket had been opened, the
\* socket has been closed.
C6_ClosedOnReturn ==
    (Returned /\ sock # "none") => sock = "closed"

\* C7: for an event whose kind is not waiting_for_approval, send_event
\* closes the connection right after the write and never reads: nothing is
\* received, it returns no reply, and the monitor's response changes neither
\* standard output nor the exit code.
C7_NoReadUnlessApproval ==
    (Built /\ event_data["event_type"] # Str("waiting_for_approval")) =>
        /\ calls.recv = 0
        /\ response = EmptyBytes
        /\ ret = None
        /\ pc \notin {"se_recv", "se_parse", "main_decide"}
        /\ wire # <<>> => pc = "se_close" \/ (Returned /\ sock = "closed")
        /\ stdout = <<>>
        /\ stderr = "none"
        /\ exitCode = IF Exited THEN 0 ELSE NoExit

C7_Witness ==
    /\ Built /\ event_data["event_type"] = Str("running_tool")
    /\ monitor.k = "reply"
    /\ Len(wire) = 1
    /\ Exited

\* the markers ps prints for a process without a controlling terminal
Placeholders == {<<"?">>, <<"?", "?">>, <<"-">>}

IsPlaceholderTty(t) ==
    /\ t.k = "str"
    /\ \/ t.v \in Placeholders
       \/ \E p \in Placeholders : t.v = DevPrefix \o p

\* C8: the tty of the outbound record is a device path or absent, never a
\* placeholder with or without the "/dev/" prefix, and resolving it never
\* ends the process.
C8_TtyNeverPlaceholder ==
    /\ "tty" \in DOMAIN event_data => ~IsPlaceholderTty(event_data["tty"])
    /\ (calls.get_tty = 1 /\ pc = "main_build") => exitCode = NoExit

\* C9 as stated: every kind-specific field of the outbound record is named
\* in the kind's column, is present in the inbound record and holds the
\* inbound value of the same name (the fall-through kind has its
\* synthesised message only).
C9_CopiedOnlyWhenPresent ==
    Built =>
        IF Hook.v \in KnownHooks
        THEN \A f \in KindKeys :
                 /\ f \in TableFields[Hook.v]
                 /\ f \in DOMAIN Inbound
                 /\ event_data[f] = Inbound[f]
        ELSE KindKeys \subseteq {"message"}

\* where the value of a kind-specific field comes from
SourceOf(f) == IF f = "title" THEN "notification_type" ELSE f

\* C9 amended: the kind-specific fields are a subset of the kind's column;
\* tool_name, tool_input, title and message are always set for their kinds,
\* holding the inbound value or, when it is absent, null ({} for
\* tool_input); tool_use_id is set only when present; title holds the
\* inbound notification_type, not an inbound title; the fall-through message
\* is synthesised; no other inbound field's value appears in them.
C9_FieldsFromTable ==
    Built =>
        IF Hook.v \in KnownHooks
        THEN /\ KindKeys \subseteq TableFields[Hook.v]
             /\ TableFields[Hook.v] \ {"tool_use_id"} \subseteq KindKeys
             /\ \A f \in KindKeys :
                   /\ event_data[f] =
                        IF SourceOf(f) \in DOMAIN Inbound THEN Inbound[SourceOf(f)]
                        ELSE IF f = "tool_input" THEN Obj("{}") ELSE None
                   /\ f = "tool_use_id" => f \in DOMAIN Inbound
                   /\ \A g \in DOMAIN Inbound :
                         event_data[f] = Inbound[g] => g = SourceOf(f)
        ELSE /\ KindKeys = {"message"}
             /\ event_data["message"] = Str("Unknown event: " \o Hook.v)
             /\ \A g \in DOMAIN Inbound : event_data["message"] # Inbound[g]

C9_Witness ==
    /\ Built /\ Hook = Str("Notification") /\ Len(wire) = 1
    /\ "title" \in DOMAIN Inbound
    /\ "tool_name" \in DOMAIN Inbound
    /\ "message" \notin DOMAIN Inbound
    /\ wire[1]["title"] = Str("auth_success")
    /\ wire[1]["message"] = None

\* standard input holds a JSON document
ValidJson == stdin.utf8 /\ stdin.json /\ ~stdin.empty

\* C10: when standard input is not valid JSON, main() ends at once with
\* exit code 1, prints nothing, resolves no terminal and neither connects
\* nor sends, whatever the monitor would do.
C10_BadStdinFatal ==
    (~ValidJson /\ pc # "main_load") =>
        /\ Exited
        /\ exitCode = 1
        /\ stdout = <<>>
        /\ calls = NoCalls
        /\ sock = "none"
        /\ wire = <<>>
        /\ event_data = EmptyDict

C10_Witness ==
    /\ stdin = Garbage /\ Exited /\ exitCode = 1
    /\ monitor.k = "reply"

====
